---- MODULE Spec2Model ----
(***************************************************************************)
(* URL Formatter plugin (src/main.ts): the paste handler, formatUrl and    *)
(* its placeholder substitution, and the settings the UI mutates.          *)
(*                                                                         *)
(* A JavaScript string is a sequence of one-character strings.  The values *)
(* null and undefined and an absent clipboard text or object field are     *)
(* one-element sequences whose element is no character, so that they       *)
(* compare with strings and differ from every string.                      *)
(***************************************************************************)
EXTENDS Integers, Sequences, FiniteSets, TLC

VARIABLES settings, lastPaste, call, subst, stored, loaded, ids, rendered, awaiting,
          lastSave, clicks

\* the variables of a session of the settings tab and of loadSettings
session == <<stored, loaded, ids, rendered, awaiting, lastSave, clicks>>

vars == <<settings, lastPaste, call, subst, session>>

Null == <<"null">>
Undefined == <<"undefined">>
Absent == <<"absent">>
\* the JavaScript booleans as values of a field that may be absent
JsTrue == <<"true">>
JsFalse == <<"false">>
\* the outcome of a call that an exception ends
Thrown == <<"thrown">>

(***************************************************************************)
(* Strings                                                                 *)
(***************************************************************************)
RECURSIVE StringsUpTo(_, _)
\* every string over chars of length at most n
StringsUpTo(chars, n) ==
    IF n = 0 THEN {<<>>}
    ELSE LET shorter == StringsUpTo(chars, n - 1)
         IN shorter \cup {Append(s, c) : s \in shorter, c \in chars}

\* the substrings of s, the empty one included
Substrings(s) ==
    {SubSeq(s, i, j) : i \in 1..(Len(s) + 1), j \in 0..Len(s)}

\* needle occurs in str at the 1-based position p
OccursAt(str, needle, p) ==
    /\ p + Len(needle) - 1 <= Len(str)
    /\ \A k \in 1..Len(needle) : str[p + k - 1] = needle[k]

Contains(str, c) == \E k \in 1..Len(str) : str[k] = c

Digit == <<"0", "1", "2", "3", "4", "5", "6", "7", "8", "9">>

RECURSIVE DecimalString(_)
\* the decimal digits of a non-negative integer, as ${i} in a template literal
DecimalString(n) ==
    IF n < 10 THEN <<Digit[n + 1]>>
    ELSE DecimalString(n \div 10) \o <<Digit[(n % 10) + 1]>>

(***************************************************************************)
(* String.prototype.replace(regex /\$i/g, replacement string), as          *)
(* main.ts:138 calls it.  The replacement is a string, so the engine       *)
(* expands the replacement patterns $$, $&, $ + grave accent and           *)
(* $ + apostrophe in it; the regex has no capture group, so $n and         *)
(* $<name> stay as they are.                                               *)
(***************************************************************************)
\* the character U+0060 (grave accent), which a TLA+ string cannot hold
Grave == "grave"

RECURSIVE GetSubstitutionFrom(_, _, _, _, _)
GetSubstitutionFrom(matched, str, position, replacement, q) ==
    IF q > Len(replacement) THEN <<>>
    ELSE IF replacement[q] = "$" /\ q < Len(replacement)
    THEN CASE replacement[q + 1] = "$" ->
                <<"$">> \o GetSubstitutionFrom(matched, str, position, replacement, q + 2)
           [] replacement[q + 1] = "&" ->
                matched \o GetSubstitutionFrom(matched, str, position, replacement, q + 2)
           [] replacement[q + 1] = Grave ->
                SubSeq(str, 1, position - 1)
                    \o GetSubstitutionFrom(matched, str, position, replacement, q + 2)
           [] replacement[q + 1] = "'" ->
                SubSeq(str, position + Len(matched), Len(str))
                    \o GetSubstitutionFrom(matched, str, position, replacement, q + 2)
           [] OTHER ->
                <<"$">> \o GetSubstitutionFrom(matched, str, position, replacement, q + 1)
    ELSE <<replacement[q]>>
            \o GetSubstitutionFrom(matched, str, position, replacement, q + 1)

\* the text inserted for the occurrence of matched at position of str
GetSubstitution(matched, str, position, replacement) ==
    GetSubstitutionFrom(matched, str, position, replacement, 1)

RECURSIVE ReplaceFrom(_, _, _, _)
ReplaceFrom(str, needle, replacement, p) ==
    IF p > Len(str) THEN <<>>
    ELSE IF OccursAt(str, needle, p)
    THEN GetSubstitution(needle, str, p, replacement)
            \o ReplaceFrom(str, needle, replacement, p + Len(needle))
    ELSE <<str[p]>> \o ReplaceFrom(str, needle, replacement, p + 1)

\* str.replace(new RegExp('\\$' + i, 'g'), replacement)
ReplaceAll(str, i, replacement) ==
    ReplaceFrom(str, <<"$">> \o DecimalString(i), replacement, 1)

\* match[i] || ''
GroupText(match, i) ==
    IF match[i + 1] = Undefined THEN <<>> ELSE match[i + 1]

RECURSIVE SubstituteFrom(_, _, _)
\* the loop of main.ts:137-139 from index i on; match[i] is match[i + 1] here
SubstituteFrom(formattedDisplayText, match, i) ==
    IF i >= Len(match) THEN formattedDisplayText
    ELSE SubstituteFrom(ReplaceAll(formattedDisplayText, i, GroupText(match, i)),
                        match, i + 1)

\* formattedDisplayText after the loop, from patternConfig.formatString
ReplacePlaceholders(formatString, match) == SubstituteFrom(formatString, match, 0)

(***************************************************************************)
(* new RegExp(source) and String.prototype.match(regex), as main.ts:130-131*)
(* call them, for the fragment of the regular-expression syntax made of    *)
(* literal characters, \x escapes of punctuation, the dot, character       *)
(* classes [...] with ranges and negation, capturing groups (...) and the  *)
(* quantifiers ? * + (greedy, or lazy with a further ?).  The expressions  *)
(* of the model stay in this fragment: no | ^ $ { } and no (? group.       *)
(***************************************************************************)
Ascii ==
    <<" ", "!", "\"", "#", "$", "%", "&", "'", "(", ")", "*", "+",
      ",", "-", ".", "/", "0", "1", "2", "3", "4", "5", "6", "7",
      "8", "9", ":", ";", "<", "=", ">", "?", "@", "A", "B", "C",
      "D", "E", "F", "G", "H", "I", "J", "K", "L", "M", "N", "O",
      "P", "Q", "R", "S", "T", "U", "V", "W", "X", "Y", "Z", "[",
      "\\", "]", "^", "_", Grave, "a", "b", "c", "d", "e", "f", "g",
      "h", "i", "j", "k", "l", "m", "n", "o", "p", "q", "r", "s",
      "t", "u", "v", "w", "x", "y", "z", "{", "|", "}", "~">>

\* the printable ASCII characters in order; CharCode is the position of one
\* (for class ranges)
CharCodes == [c \in {Ascii[k] : k \in 1..Len(Ascii)} |-> CHOOSE k \in 1..Len(Ascii) : Ascii[k] = c]

CharCode(c) == CharCodes[c]

Quantifiers == {"?", "*", "+"}

RECURSIVE FindClassEnd(_, _)
\* the index of the ] that closes a class whose content starts at j; 0 if none
FindClassEnd(e, j) ==
    IF j > Len(e) THEN 0
    ELSE IF e[j] = "\\" THEN FindClassEnd(e, j + 2)
    ELSE IF e[j] = "]" THEN j
    ELSE FindClassEnd(e, j + 1)

RECURSIVE FindClose(_, _, _)
\* the index of the ) that closes a group whose content starts at j; 0 if none
FindClose(e, j, depth) ==
    IF j > Len(e) THEN 0
    ELSE IF e[j] = "\\" THEN FindClose(e, j + 2, depth)
    ELSE IF e[j] = "["
    THEN LET end == FindClassEnd(e, j + 1)
         IN IF end = 0 THEN 0 ELSE FindClose(e, end + 1, depth)
    ELSE IF e[j] = "(" THEN FindClose(e, j + 1, depth + 1)
    ELSE IF e[j] = ")"
    THEN IF depth = 1 THEN j ELSE FindClose(e, j + 1, depth - 1)
    ELSE FindClose(e, j + 1, depth)

\* the index of the last character of the atom that starts at i; 0 if the
\* atom is not terminated
AtomEnd(e, i) ==
    CASE e[i] = "\\" -> IF i + 1 <= Len(e) THEN i + 1 ELSE 0
      [] e[i] = "(" -> FindClose(e, i + 1, 1)
      [] e[i] = "[" -> FindClassEnd(e, i + 1)
      [] OTHER -> i

\* the index after the quantifier (if any) that starts at q
AfterQuantifier(e, q, stop) ==
    IF q < stop /\ e[q] \in Quantifiers
    THEN IF q + 1 < stop /\ e[q + 1] = "?" THEN q + 2 ELSE q + 1
    ELSE q

RECURSIVE CountOpen(_, _, _)
\* the number of capturing groups that open in e[j .. stop - 1]
CountOpen(e, j, stop) ==
    IF j >= stop \/ j > Len(e) THEN 0
    ELSE IF e[j] = "\\" THEN CountOpen(e, j + 2, stop)
    ELSE IF e[j] = "["
    THEN LET end == FindClassEnd(e, j + 1)
         IN IF end = 0 THEN 0 ELSE CountOpen(e, end + 1, stop)
    ELSE (IF e[j] = "(" THEN 1 ELSE 0) + CountOpen(e, j + 1, stop)

RECURSIVE SyntaxOK(_, _, _)
\* e[i .. stop - 1] is a well-formed sequence of quantified atoms
SyntaxOK(e, i, stop) ==
    IF i >= stop THEN TRUE
    ELSE IF e[i] \in Quantifiers \cup {")"} THEN FALSE
    ELSE LET end == AtomEnd(e, i)
         IN /\ end # 0
            /\ end < stop
            /\ e[i] = "(" => SyntaxOK(e, i + 1, end)
            /\ SyntaxOK(e, AfterQuantifier(e, end + 1, stop), stop)

\* new RegExp(source) does not throw a SyntaxError
RegExpCompiles(source) == SyntaxOK(source, 1, Len(source) + 1)

RECURSIVE ClassMember(_, _, _, _)
\* ch is among the members e[j .. end - 1] of a class
ClassMember(e, j, end, ch) ==
    IF j >= end THEN FALSE
    ELSE LET esc == e[j] = "\\"
             lo == IF esc THEN e[j + 1] ELSE e[j]
             after == IF esc THEN j + 2 ELSE j + 1
         IN IF after + 1 < end /\ e[after] = "-"
            THEN \/ CharCode(lo) <= CharCode(ch) /\ CharCode(ch) <= CharCode(e[after + 1])
                 \/ ClassMember(e, after + 2, end, ch)
            ELSE ch = lo \/ ClassMember(e, after, end, ch)

\* the class that starts at i accepts ch
ClassHas(e, i, ch) ==
    LET end == AtomEnd(e, i)
        neg == i + 1 < end /\ e[i + 1] = "^"
    IN ClassMember(e, IF neg THEN i + 2 ELSE i + 1, end, ch) # neg

\* the captures of the groups inside the atom at i, reset to undefined
ResetCaps(e, i, caps) ==
    LET first == CountOpen(e, 1, i) + 1
        last == CountOpen(e, 1, AtomEnd(e, i) + 1)
    IN [g \in 1..Len(caps) |-> IF first <= g /\ g <= last THEN Undefined ELSE caps[g]]

\* the atom at i is not a group and consumes one character: it accepts ch
Accepts(e, i, ch) ==
    CASE e[i] = "[" -> ClassHas(e, i, ch)
      [] e[i] = "." -> TRUE
      [] e[i] = "\\" -> ch = e[i + 1]
      [] OTHER -> ch = e[i]

RECURSIVE RunLength(_, _, _, _)
\* how many characters of u after the first pos the one-character atom at i
\* accepts in a row
RunLength(e, u, i, pos) ==
    IF pos < Len(u) /\ Accepts(e, i, u[pos + 1])
    THEN 1 + RunLength(e, u, i, pos + 1)
    ELSE 0

\* A match state is [pos, caps]: pos characters of u are consumed, caps[g] is
\* the text of group g or Undefined.  Every operator below returns the
\* sequence of the match states it can end in, in the backtracking order of
\* the engine.

\* the one-character atom at i under the quantifier q: the longest run first
\* (the shortest first when lazy)
RepeatChar(e, u, i, q, lazy, pos, caps) ==
    LET n == RunLength(e, u, i, pos)
        lo == IF q = "+" THEN 1 ELSE 0
        hi == IF q = "?" /\ n > 1 THEN 1 ELSE n
    IN IF hi < lo THEN <<>>
       ELSE [k \in 1..(hi - lo + 1) |->
                [pos |-> pos + (IF lazy THEN lo + k - 1 ELSE hi - k + 1),
                 caps |-> caps]]

RECURSIVE FixedAtoms(_, _, _)
\* where the atoms of the longest run of unquantified one-character atoms
\* from i on start
FixedAtoms(e, i, stop) ==
    IF i >= stop \/ e[i] = "(" THEN <<>>
    ELSE IF AfterQuantifier(e, AtomEnd(e, i) + 1, stop) # AtomEnd(e, i) + 1 THEN <<>>
    ELSE <<i>> \o FixedAtoms(e, AtomEnd(e, i) + 1, stop)

RECURSIVE MatchSeq(_, _, _, _, _, _)
RECURSIVE MatchFixed(_, _, _, _, _, _)
RECURSIVE MatchGroup(_, _, _, _, _)
RECURSIVE ThenSeq(_, _, _, _, _, _)
RECURSIVE Star(_, _, _, _, _, _)
RECURSIVE ThenStar(_, _, _, _, _, _)

\* the group that opens at i, once, from the state [pos, caps]
MatchGroup(e, u, i, pos, caps) ==
    LET g == CountOpen(e, 1, i + 1)
        inner == MatchSeq(e, u, i + 1, AtomEnd(e, i), pos, caps)
    IN [k \in 1..Len(inner) |->
            [pos |-> inner[k].pos,
             caps |-> [inner[k].caps EXCEPT ![g] = SubSeq(u, pos + 1, inner[k].pos)]]]

\* one more iteration of the quantified group at i: it must consume something
Iterate(e, u, i, pos, caps) ==
    SelectSeq(MatchGroup(e, u, i, pos, ResetCaps(e, i, caps)), LAMBDA r : r.pos > pos)

\* zero or more iterations of the group at i
Star(e, u, i, pos, caps, lazy) ==
    LET here == <<[pos |-> pos, caps |-> caps]>>
        more == ThenStar(e, u, i, Iterate(e, u, i, pos, caps), 1, lazy)
    IN IF lazy THEN here \o more ELSE more \o here

ThenStar(e, u, i, rs, k, lazy) ==
    IF k > Len(rs) THEN <<>>
    ELSE Star(e, u, i, rs[k].pos, rs[k].caps, lazy) \o ThenStar(e, u, i, rs, k + 1, lazy)

\* the group at i under the quantifier q
RepeatGroup(e, u, i, q, lazy, pos, caps) ==
    LET here == <<[pos |-> pos, caps |-> caps]>>
    IN CASE q = "?" ->
              IF lazy THEN here \o Iterate(e, u, i, pos, caps)
              ELSE Iterate(e, u, i, pos, caps) \o here
         [] q = "*" -> Star(e, u, i, pos, caps, lazy)
         [] q = "+" ->
              ThenStar(e, u, i, MatchGroup(e, u, i, pos, ResetCaps(e, i, caps)), 1, lazy)

\* the run of unquantified one-character atoms that start at atoms, each on
\* one character of u, then the rest of the sequence
MatchFixed(e, u, atoms, stop, pos, caps) ==
    IF /\ pos + Len(atoms) <= Len(u)
       /\ \A k \in 1..Len(atoms) : Accepts(e, atoms[k], u[pos + k])
    THEN MatchSeq(e, u, AtomEnd(e, atoms[Len(atoms)]) + 1, stop, pos + Len(atoms), caps)
    ELSE <<>>

\* the sequence e[i .. stop - 1] from the state [pos, caps]
MatchSeq(e, u, i, stop, pos, caps) ==
    IF i >= stop THEN <<[pos |-> pos, caps |-> caps]>>
    ELSE LET q == AtomEnd(e, i) + 1
             next == AfterQuantifier(e, q, stop)
         IN IF e[i] # "("
            THEN IF next = q
                 THEN MatchFixed(e, u, FixedAtoms(e, i, stop), stop, pos, caps)
                 ELSE ThenSeq(e, u, RepeatChar(e, u, i, e[q], next = q + 2, pos, caps),
                              1, next, stop)
            ELSE IF next = q
                 THEN ThenSeq(e, u, MatchGroup(e, u, i, pos, caps), 1, next, stop)
                 ELSE ThenSeq(e, u, RepeatGroup(e, u, i, e[q], next = q + 2, pos, caps),
                              1, next, stop)

ThenSeq(e, u, rs, k, next, stop) ==
    IF k > Len(rs) THEN <<>>
    ELSE MatchSeq(e, u, next, stop, rs[k].pos, rs[k].caps)
            \o ThenSeq(e, u, rs, k + 1, next, stop)

RECURSIVE ExecFrom(_, _, _, _)
\* the leftmost match of e in u that starts at start or later, every group
\* undefined (caps) at each start: the array <<matched text, group 1, ...,
\* group n>>, or Null
ExecFrom(e, u, start, caps) ==
    IF start > Len(u) THEN Null
    ELSE LET rs == MatchSeq(e, u, 1, Len(e) + 1, start, caps)
         IN IF rs # <<>>
            THEN <<SubSeq(u, start + 1, rs[1].pos)>> \o rs[1].caps
            ELSE ExecFrom(e, u, start + 1, caps)

\* url.match(regex) for a regex without the g flag
StringMatch(u, e) ==
    ExecFrom(e, u, 0, [g \in 1..CountOpen(e, 1, Len(e) + 1) |-> Undefined])

(***************************************************************************)
(* isUrl: new URL(text) does not throw.  Without a base the text needs a   *)
(* scheme; a special scheme other than file needs a non-empty host, any    *)
(* other scheme takes every remainder as an opaque path.  The texts of the *)
(* model carry no port, credentials, numeric or bracketed host.            *)
(***************************************************************************)
Alpha ==
    {Ascii[k] : k \in CharCode("A")..CharCode("Z")}
        \cup {Ascii[k] : k \in CharCode("a")..CharCode("z")}

Numeric == {Ascii[k] : k \in CharCode("0")..CharCode("9")}

SchemeChars == Alpha \cup Numeric \cup {"+", "-", "."}

HostfulSchemes ==
    {<<"h", "t", "t", "p">>, <<"h", "t", "t", "p", "s">>, <<"f", "t", "p">>,
     <<"w", "s">>, <<"w", "s", "s">>}

RECURSIVE SkipSlashes(_, _)
SkipSlashes(text, j) ==
    IF j <= Len(text) /\ text[j] \in {"/", "\\"} THEN SkipSlashes(text, j + 1) ELSE j

\* the text after the colon at k starts a non-empty host
HasHost(text, k) ==
    LET h == SkipSlashes(text, k + 1)
    IN h <= Len(text) /\ text[h] \notin {"?", "#", ":", "@"}

isUrl(text) ==
    \E k \in 2..Len(text) :
        /\ text[k] = ":"
        /\ text[1] \in Alpha
        /\ \A j \in 2..(k - 1) : text[j] \in SchemeChars
        /\ SubSeq(text, 1, k - 1) \in HostfulSchemes => HasHost(text, k)

(***************************************************************************)
(* Settings (main.ts:6-26).  A pattern record also carries the enabled     *)
(* field persisted data may hold (Absent when the object has none); the    *)
(* interface UrlPattern does not declare it.                               *)
(***************************************************************************)
UrlPattern(name, pattern, formatString) ==
    [name |-> name, pattern |-> pattern, formatString |-> formatString,
     enabled |-> Absent]

DefaultName == <<"T", "i", "c", "k", "e", "t", "s", " ", "p", "e", "r", " ", "c", "o", "m", "p", "a", "n", "y">>

DefaultPattern ==
    <<"h", "t", "t", "p", "s", ":", "\\", "/", "\\", "/", "(", "[", "A", "-", "Z", "a", "-", "z", "0", "-", "9", "-", "]", "+", ")", "\\", ".", "e", "x", "a", "m", "p", "l", "e", "\\", ".", "c", "o", "m", "\\", "/", "(", "[", "A", "-", "Z", "0", "-", "9", "-", "]", "+", ")">>

DefaultFormatString == <<"$", "2", " ", "(", "$", "1", ")">>

DEFAULT_SETTINGS ==
    [enabled |-> TRUE,
     urlPatterns |-> <<UrlPattern(DefaultName, DefaultPattern, DefaultFormatString)>>]

(***************************************************************************)
(* formatUrl (main.ts:126-150)                                             *)
(***************************************************************************)
\* the template literal of main.ts:141
\* the link with the label and the target in each other's place
MarkdownLinkSwapped(formattedDisplayText, url) ==
    <<"[">> \o url \o <<"]", "(">> \o formattedDisplayText \o <<")">>

MarkdownLink(formattedDisplayText, url) ==
    <<"[">> \o formattedDisplayText \o <<"]", "(">> \o url \o <<")">>

\* main.ts:133-142 if the substitution stood outside the try block: the
\* TypeError of undefined.replace would leave formatUrl
RenderMatchNoCatch(patternConfig, url, match) ==
    IF match = Null THEN Null
    ELSE IF patternConfig.formatString = Absent THEN Thrown
    ELSE MarkdownLink(ReplacePlaceholders(patternConfig.formatString, match), url)

\* main.ts:133-142 for one pattern whose expression compiled: the link if
\* url.match(regex) found a match, Null if it found none
\* a formatString that is no string (the object has none) makes .replace a
\* TypeError inside the try: the catch logs it and the loop goes on
RenderMatch(patternConfig, url, match) ==
    IF match # Null /\ patternConfig.formatString # Absent
    THEN MarkdownLink(ReplacePlaceholders(patternConfig.formatString, match), url)
    ELSE Null

\* the source new RegExp(pattern) compiles: the empty one for undefined
RegExpSource(pattern) == IF pattern = Absent THEN <<>> ELSE pattern

\* the body of the for loop (main.ts:129-145) for one pattern: the link it
\* returns, or Null when the loop goes on to the next pattern, which it does
\* when there is no match and when new RegExp threw (the catch only logs)
TryPattern(patternConfig, url) ==
    IF RegExpCompiles(RegExpSource(patternConfig.pattern))
    THEN RenderMatch(patternConfig, url,
                     StringMatch(url, RegExpSource(patternConfig.pattern)))
    ELSE Null

\* the k-th iteration returns formattedLink, or the loop goes on with rest
ReturnOrContinue(formattedLink, k, rest) ==
    IF formattedLink # Null THEN [result |-> formattedLink, index |-> k] ELSE rest

\* formatUrl's loop if it gave up after its first pattern
formatUrlFirstOnly(urlPatterns, url, k) ==
    IF k > Len(urlPatterns) THEN [result |-> Null, index |-> 0]
    ELSE ReturnOrContinue(TryPattern(urlPatterns[k], url), k,
                          [result |-> Null, index |-> 0])

RECURSIVE formatUrlLastMatch(_, _, _)
\* formatUrl's loop if a later matching pattern replaced the link of an earlier
formatUrlLastMatch(urlPatterns, url, k) ==
    IF k > Len(urlPatterns) THEN [result |-> Null, index |-> 0]
    ELSE ReturnOrContinue(formatUrlLastMatch(urlPatterns, url, k + 1).result,
                          formatUrlLastMatch(urlPatterns, url, k + 1).index,
                          ReturnOrContinue(TryPattern(urlPatterns[k], url), k,
                                           [result |-> Null, index |-> 0]))

RECURSIVE formatUrlSkipDisabled(_, _, _)
\* formatUrl's loop if it skipped the patterns whose field enabled is false
formatUrlSkipDisabled(urlPatterns, url, k) ==
    IF k > Len(urlPatterns) THEN [result |-> Null, index |-> 0]
    ELSE IF urlPatterns[k].enabled = JsFalse
    THEN formatUrlSkipDisabled(urlPatterns, url, k + 1)
    ELSE ReturnOrContinue(TryPattern(urlPatterns[k], url), k,
                          formatUrlSkipDisabled(urlPatterns, url, k + 1))

RECURSIVE formatUrlNoCatch(_, _, _)
\* formatUrl's loop without the try/catch around new RegExp
formatUrlNoCatch(urlPatterns, url, k) ==
    IF k > Len(urlPatterns) THEN [result |-> Null, index |-> 0]
    ELSE IF ~RegExpCompiles(urlPatterns[k].pattern)
    THEN [result |-> Thrown, index |-> k]
    ELSE ReturnOrContinue(TryPattern(urlPatterns[k], url), k,
                          formatUrlNoCatch(urlPatterns, url, k + 1))

RECURSIVE formatUrlFrom(_, _, _)
\* the for loop of formatUrl from the k-th pattern on: the value returned and
\* the index of the pattern whose iteration returned it (0 for the final
\* return null)
formatUrlFrom(urlPatterns, url, k) ==
    IF k > Len(urlPatterns) THEN [result |-> Null, index |-> 0]
    ELSE ReturnOrContinue(TryPattern(urlPatterns[k], url), k,
                          formatUrlFrom(urlPatterns, url, k + 1))

\* this.formatUrl(url) with this.settings = s
formatUrl(s, url) == formatUrlFrom(s.urlPatterns, url, 1).result

(***************************************************************************)
(* The paste handler (main.ts:52-84).  The record is what one paste event  *)
(* leaves behind: its inputs (the clipboard text, the main selection), the *)
(* flag the handler read, what formatUrl returned (Absent if it was not    *)
(* called), whether preventDefault was called, the transactions dispatched *)
(* to the view and the value returned.                                     *)
(***************************************************************************)
\* the handler's early return if preventDefault had been called on entry
NotHandledButPrevented(s, pastedText, from, to, formattedText) ==
    [text |-> pastedText, from |-> from, to |-> to, enabled |-> s.enabled,
     formattedText |-> formattedText, defaultPrevented |-> TRUE,
     dispatched |-> <<>>, handled |-> FALSE]

NotHandled(s, pastedText, from, to, formattedText) ==
    [text |-> pastedText, from |-> from, to |-> to, enabled |-> s.enabled,
     formattedText |-> formattedText, defaultPrevented |-> FALSE,
     dispatched |-> <<>>, handled |-> FALSE]

\* the rewrite if the cursor were put at the length of the link, the start of
\* the selection forgotten
RewriteCursorFromZero(s, pastedText, from, to, formattedText) ==
    IF formattedText \notin {Null, <<>>}
    THEN [text |-> pastedText, from |-> from, to |-> to,
          enabled |-> s.enabled, formattedText |-> formattedText,
          defaultPrevented |-> TRUE,
          dispatched |->
            <<[changes |-> [from |-> from, to |-> to, insert |-> formattedText],
               selection |-> [anchor |-> Len(formattedText),
                              head |-> Len(formattedText)]]>>,
          handled |-> TRUE]
    ELSE NotHandled(s, pastedText, from, to, formattedText)

\* main.ts:64-81: what the handler does with the value formatUrl returned
Rewrite(s, pastedText, from, to, formattedText) ==
    IF formattedText \notin {Null, <<>>}
    THEN [text |-> pastedText, from |-> from, to |-> to,
          enabled |-> s.enabled, formattedText |-> formattedText,
          defaultPrevented |-> TRUE,
          dispatched |->
            <<[changes |-> [from |-> from, to |-> to, insert |-> formattedText],
               selection |-> [anchor |-> from + Len(formattedText),
                              head |-> from + Len(formattedText)]]>>,
          handled |-> TRUE]
    ELSE NotHandled(s, pastedText, from, to, formattedText)

\* the handler without the check of the flag on entry
pasteIgnoringFlag(s, pastedText, from, to) ==
    IF pastedText \notin {Undefined, <<>>} /\ isUrl(pastedText)
    THEN Rewrite(s, pastedText, from, to, formatUrl(s, pastedText))
    ELSE NotHandled(s, pastedText, from, to, Absent)

paste(s, pastedText, from, to) ==
    IF ~s.enabled THEN NotHandled(s, pastedText, from, to, Absent)
    ELSE IF pastedText \notin {Undefined, <<>>} /\ isUrl(pastedText)
    THEN Rewrite(s, pastedText, from, to, formatUrl(s, pastedText))
    ELSE NotHandled(s, pastedText, from, to, Absent)

(***************************************************************************)
(* Bounds and input sets                                                   *)
(***************************************************************************)
MaxPatterns == 2
MaxPos == 1
MaxTemplateLen == 2
MaxMatchLen == 2
MaxGroups == 2

\* expressions the user can type: an unterminated group, two that match part
\* of a pasted text
Unterminated == <<"(">>
TwoAfterColon == <<":", "(", ".", ")", "(", ".", ")">>
LetterA == <<"(", "a", ")">>

\* what the user can type into the fields of a pattern
TypedNames == {<<>>}
TypedPatterns == {Unterminated}
TypedFormatStrings == {<<"$", "0">>}

ExampleUrl == <<"h", "t", "t", "p", "s", ":", "/", "/", "a", "c", "m", "e", ".", "e", "x", "a", "m", "p", "l", "e", ".", "c", "o", "m", "/", "A", "B", "C", "-", "1", "2", "3">>

\* clipboard texts: none, empty, not a URL, URLs
PastedTexts ==
    {Undefined, <<>>, <<"a">>, <<"a", ":", "2", "1">>, ExampleUrl}

(***************************************************************************)
(* The plugin: the in-memory settings, the handlers of the settings tab    *)
(* (main.ts:174-251) and the paste handler                                 *)
(***************************************************************************)
\* what loadData returns: whether data.json exists, and the two fields of the
\* object in it; urlPatterns is absent, null, some other value that is no
\* array ("number"), or an array of items
NoData ==
    [exists |-> FALSE, enabled |-> Absent,
     urlPatterns |-> [kind |-> "absent", items |-> <<>>]]

\* no handler of the settings tab has ended yet
NoSave == [control |-> "none", outcome |-> "none"]

\* nothing loaded, no settings tab shown, no handler waiting
NoSession ==
    /\ stored = NoData
    /\ loaded = Absent
    /\ ids = <<>>
    /\ rendered = <<>>
    /\ awaiting = <<>>
    /\ lastSave = NoSave
    /\ clicks = 0

\* no paste event yet
NoPaste == NotHandled(DEFAULT_SETTINGS, Absent, 0, 0, Absent)
NoCall == [url |-> Absent, result |-> Absent, index |-> 0]
NoSubst == [formatString |-> Absent, match |-> Absent, out |-> Absent]

Init ==
    /\ settings = DEFAULT_SETTINGS
    /\ lastPaste = NoPaste
    /\ NoSession
    /\ call = NoCall
    /\ subst = NoSubst

\* the toggle's onChange (main.ts:176-179): the toggle shows the flag, a click
\* reports the other value
ToggleEnabled ==
    /\ settings' = [settings EXCEPT !.enabled = ~settings.enabled]
    /\ UNCHANGED <<lastPaste, call, subst, session>>

\* the name field's onChange (main.ts:199-202)
SetName(index, value) ==
    /\ index \in 1..Len(settings.urlPatterns)
    /\ settings' = [settings EXCEPT !.urlPatterns[index].name = value]
    /\ UNCHANGED <<lastPaste, call, subst, session>>

\* the regex field's onChange (main.ts:210-213)
SetPattern(index, value) ==
    /\ index \in 1..Len(settings.urlPatterns)
    /\ settings' = [settings EXCEPT !.urlPatterns[index].pattern = value]
    /\ UNCHANGED <<lastPaste, call, subst, session>>

\* the format-string field's onChange (main.ts:223-226)
SetFormatString(index, value) ==
    /\ index \in 1..Len(settings.urlPatterns)
    /\ settings' = [settings EXCEPT !.urlPatterns[index].formatString = value]
    /\ UNCHANGED <<lastPaste, call, subst, session>>

\* Array.prototype.splice(index, 1), index counted from 1 here: nothing is
\* removed at an index past the end
Splice(seq, index) ==
    IF index > Len(seq) THEN seq
    ELSE SubSeq(seq, 1, index - 1) \o SubSeq(seq, index + 1, Len(seq))

\* Remove Pattern's onClick (main.ts:235-239)
RemovePattern(index) ==
    /\ index \in 1..Len(settings.urlPatterns)
    /\ settings' = [settings EXCEPT !.urlPatterns = Splice(@, index)]
    /\ UNCHANGED <<lastPaste, call, subst, session>>

\* Add New Pattern's onClick (main.ts:247-251)
AddPattern ==
    /\ Len(settings.urlPatterns) < MaxPatterns
    /\ settings' = [settings EXCEPT
                        !.urlPatterns = Append(@, UrlPattern(<<>>, <<>>, <<>>))]
    /\ UNCHANGED <<lastPaste, call, subst, session>>

\* one paste event (main.ts:52-84)
Paste(pastedText, from, to) ==
    /\ lastPaste' = paste(settings, pastedText, from, to)
    /\ UNCHANGED <<settings, call, subst, session>>

Next ==
    \/ ToggleEnabled
    \/ \E index \in 1..MaxPatterns, value \in TypedNames : SetName(index, value)
    \/ \E index \in 1..MaxPatterns, value \in TypedPatterns : SetPattern(index, value)
    \/ \E index \in 1..MaxPatterns, value \in TypedFormatStrings :
            SetFormatString(index, value)
    \/ \E index \in 1..MaxPatterns : RemovePattern(index)
    \/ AddPattern
    \/ \E pastedText \in PastedTexts, from \in 0..MaxPos, to \in 0..MaxPos :
            from <= to /\ Paste(pastedText, from, to)

Spec == Init /\ [][Next]_vars

(***************************************************************************)
(* The substitution loop alone (main.ts:133-139): a template and a match   *)
(* array are drawn, the loop runs once on them.                            *)
(***************************************************************************)
TemplateChars == {"$", "0", "1", "2"}
MatchChars == {"$", "1"}

RECURSIVE GroupLists(_, _)
\* the lists of at most n capture groups of a match of m0: a group is a
\* substring of the matched text, or undefined if it did not participate
GroupLists(m0, n) ==
    IF n = 0 THEN {<<>>}
    ELSE LET shorter == GroupLists(m0, n - 1)
         IN shorter \cup {Append(gs, g) : gs \in shorter,
                                          g \in Substrings(m0) \cup {Undefined}}

\* the arrays String.prototype.match can return: match[0], then the groups
MatchArrays ==
    UNION {{<<m0>> \o gs : gs \in GroupLists(m0, MaxGroups)} :
                m0 \in StringsUpTo(MatchChars, MaxMatchLen)}

InitRender ==
    /\ settings = DEFAULT_SETTINGS
    /\ lastPaste = NoPaste
    /\ NoSession
    /\ call = NoCall
    /\ subst \in {[formatString |-> f, match |-> m, out |-> Absent] :
                    f \in StringsUpTo(TemplateChars, MaxTemplateLen),
                    m \in MatchArrays}

\* main.ts:133-139 on the drawn template and match
Render ==
    /\ subst.out = Absent
    /\ subst' = [subst EXCEPT
                    !.out = ReplacePlaceholders(subst.formatString, subst.match)]
    /\ UNCHANGED <<settings, lastPaste, call, session>>

NextRender == Render

SpecRender == InitRender /\ [][NextRender]_vars

(***************************************************************************)
(* formatUrl alone (main.ts:126-150): settings as loadSettings can leave   *)
(* them (main.ts:90: whatever fields the stored patterns carry are kept,   *)
(* so a pattern may carry a field "enabled" the interface does not         *)
(* declare), then calls of formatUrl on them.                              *)
(***************************************************************************)
Expressions == {Unterminated, TwoAfterColon, LetterA}
FormatStrings == {<<"$", "0">>, <<"$", "$", "1">>}
Urls == {<<"a", ":", "2", "1">>, <<"b", ":">>}

StoredPatterns ==
    {[name |-> <<>>, pattern |-> e, formatString |-> f, enabled |-> en] :
        e \in Expressions, f \in FormatStrings, en \in {Absent, JsTrue, JsFalse}}

RECURSIVE PatternLists(_)
\* the pattern arrays of at most n stored patterns
PatternLists(n) ==
    IF n = 0 THEN {<<>>}
    ELSE LET shorter == PatternLists(n - 1)
         IN shorter \cup {Append(ps, p) : ps \in shorter, p \in StoredPatterns}

InitFormat ==
    /\ settings \in {[enabled |-> en, urlPatterns |-> ps] :
                        en \in BOOLEAN, ps \in PatternLists(MaxPatterns)}
    /\ lastPaste = NoPaste
    /\ NoSession
    /\ call = NoCall
    /\ subst = NoSubst

\* the value and the returning iteration of one call of formatUrl
Called(url, returned) ==
    [url |-> url, result |-> returned.result, index |-> returned.index]

\* this.formatUrl(url)
FormatUrlCall(url) ==
    /\ call' = Called(url, formatUrlFrom(settings.urlPatterns, url, 1))
    /\ UNCHANGED <<settings, lastPaste, subst, session>>

NextFormat == \E url \in Urls : FormatUrlCall(url)

SpecFormat == InitFormat /\ [][NextFormat]_vars

(***************************************************************************)
(* What the claims about formatUrl speak of                                *)
(***************************************************************************)
\* the expression of p is valid and matches url
Matches(p, url) ==
    RegExpCompiles(p.pattern) /\ StringMatch(url, p.pattern) # Null

\* p counts as enabled: its field enabled is not false
IsEnabled(p) == p.enabled # JsFalse

MatchingIndices(ps, url) == {k \in 1..Len(ps) : Matches(ps[k], url)}

EnabledMatching(ps, url) == {k \in MatchingIndices(ps, url) : IsEnabled(ps[k])}

Lowest(S) == CHOOSE k \in S : \A j \in S : k <= j

\* the link rendered from the template of p alone
RenderedFrom(p, url) ==
    MarkdownLink(ReplacePlaceholders(p.formatString, StringMatch(url, p.pattern)), url)

\* C1: when two or more enabled patterns match the URL, formatUrl returns the
\* link rendered from the template of the lowest-index matching pattern, and
\* from that one only
C1_FirstMatchWins ==
    (call.url # Absent /\ Cardinality(EnabledMatching(settings.urlPatterns, call.url)) >= 2) =>
        /\ call.index = Lowest(MatchingIndices(settings.urlPatterns, call.url))
        /\ call.result = RenderedFrom(settings.urlPatterns[call.index], call.url)

\* two enabled patterns with different renderings match, the first one's is returned
C1_Witness ==
    /\ call.url # Absent
    /\ \E i, j \in EnabledMatching(settings.urlPatterns, call.url) :
        /\ i < j
        /\ RenderedFrom(settings.urlPatterns[i], call.url)
                # RenderedFrom(settings.urlPatterns[j], call.url)
        /\ call.result = RenderedFrom(settings.urlPatterns[i], call.url)

WithoutEnabled(ps) == [k \in 1..Len(ps) |-> [ps[k] EXCEPT !.enabled = Absent]]

C4_MalformedIsolation ==
    call.url # Absent =>
        /\ call.result # Thrown
        /\ \A i \in 1..Len(settings.urlPatterns) :
            (/\ ~RegExpCompiles(settings.urlPatterns[i].pattern)
             /\ \A k \in 1..(i - 1) : ~Matches(settings.urlPatterns[k], call.url)
             /\ \E j \in (i + 1)..Len(settings.urlPatterns) :
                    Matches(settings.urlPatterns[j], call.url))
            => /\ call.index > i
               /\ call.index = Lowest(MatchingIndices(settings.urlPatterns, call.url))
               /\ call.result = RenderedFrom(settings.urlPatterns[call.index], call.url)

\* an invalid expression came first, the valid pattern after it gave the link
C4_Witness ==
    /\ call.index = 2
    /\ ~RegExpCompiles(settings.urlPatterns[1].pattern)
    /\ call.result = RenderedFrom(settings.urlPatterns[2], call.url)

(***************************************************************************)
(* C5: substitution of the placeholders                                    *)
(***************************************************************************)
\* the index of the placeholder $i, i < match.length, that starts at p
PlaceholderAt(template, match, p) ==
    {i \in 0..(Len(match) - 1) : OccursAt(template, <<"$">> \o DecimalString(i), p)}

RECURSIVE SubstituteAtOnce(_, _, _)
\* one pass over the original template from p on: each placeholder of an
\* element of match becomes that element's text, nothing inserted is read again
SubstituteAtOnce(template, match, p) ==
    IF p > Len(template) THEN <<>>
    ELSE IF PlaceholderAt(template, match, p) # {}
    THEN GroupText(match, CHOOSE i \in PlaceholderAt(template, match, p) : TRUE)
            \o SubstituteAtOnce(template, match, p + 2)
    ELSE <<template[p]>> \o SubstituteAtOnce(template, match, p + 1)

\* the orders in which the indices 0..n-1 can be taken
Orders(n) ==
    {o \in [1..n -> 0..(n - 1)] : \A a, b \in 1..n : a # b => o[a] # o[b]}

RECURSIVE SubstituteInOrder(_, _, _, _)
\* the replace of main.ts:138 for the indices order[k], order[k + 1], ...
SubstituteInOrder(text, match, order, k) ==
    IF k > Len(match) THEN text
    ELSE SubstituteInOrder(ReplaceAll(text, order[k], GroupText(match, order[k])),
                           match, order, k + 1)

\* C5: the label the loop produces is the original template with every
\* placeholder replaced at once by the text of its match element (empty for a
\* group that did not participate), and substituting the indices in any other
\* order gives the same label
C5_SimultaneousSubstitution ==
    subst.out # Absent =>
        /\ subst.out = SubstituteAtOnce(subst.formatString, subst.match, 1)
        /\ \A order \in Orders(Len(subst.match)) :
                SubstituteInOrder(subst.formatString, subst.match, order, 1) = subst.out

\* C6: a non-null result is "[" label "](" url ")" with the label rendered
\* from the producing pattern and the whole input as the target, so it is
\* never the empty string
C6_LinkForm ==
    (call.url # Absent /\ call.result # Null) =>
        /\ call.result # <<>>
        /\ Len(call.result) >= Len(call.url) + 4
        /\ call.result[1] = "["
        /\ SubSeq(call.result, 2, Len(call.result) - Len(call.url) - 3)
                = ReplacePlaceholders(settings.urlPatterns[call.index].formatString,
                        StringMatch(call.url, settings.urlPatterns[call.index].pattern))
        /\ SubSeq(call.result, Len(call.result) - Len(call.url) - 2, Len(call.result))
                = <<"]", "(">> \o call.url \o <<")">>

\* the expression (a) matched the first character only and the template is $0:
\* the label is the matched part, the target the whole input
C6_Witness ==
    /\ call.url = <<"a", ":", "2", "1">>
    /\ call.result = <<"[", "a", "]", "(", "a", ":", "2", "1", ")">>

NoDollar(match) ==
    \A k \in 1..Len(match) : match[k] = Undefined \/ ~Contains(match[k], "$")

JiraPattern ==
    <<"h", "t", "t", "p", "s", ":", "\\", "/", "\\", "/", "y", "o", "u", "r", "c", "o", "m", "p", "a", "n", "y", "\\", ".", "a", "t", "l", "a", "s", "s", "i", "a", "n", "\\", ".", "n", "e", "t", "\\", "/", "b", "r", "o", "w", "s", "e", "\\", "/", "(", "[", "A", "-", "Z", "0", "-", "9", "-", "]", "+", ")">>

JiraUrl ==
    <<"h", "t", "t", "p", "s", ":", "/", "/", "y", "o", "u", "r", "c", "o", "m", "p", "a", "n", "y", ".", "a", "t", "l", "a", "s", "s", "i", "a", "n", ".", "n", "e", "t", "/", "b", "r", "o", "w", "s", "e", "/", "P", "R", "O", "J", "-", "4", "5", "6", "7">>

\* the two documented examples, run through formatUrl
DocumentedExamples ==
    /\ formatUrlFrom(<<UrlPattern(<<>>, DefaultPattern, DefaultFormatString)>>, ExampleUrl, 1).result
        = <<"[", "A", "B", "C", "-", "1", "2", "3", " ", "(", "a", "c", "m", "e", ")", "]", "(">>
            \o ExampleUrl \o <<")">>
    /\ formatUrlFrom(<<UrlPattern(<<>>, JiraPattern, <<"J", "i", "r", "a", ":", " ", "$", "1">>)>>, JiraUrl, 1).result
        = <<"[", "J", "i", "r", "a", ":", " ", "P", "R", "O", "J", "-", "4", "5", "6", "7", "]", "(">>
            \o JiraUrl \o <<")">>

\* C8: when the producing pattern has at most nine groups and no captured text
\* holds a "$", the result is "[" L "](" url ")" with L the template in which
\* each $i is replaced by the text of group i, as in the documented examples
C8_TemplateRendered ==
    /\ (/\ call.index # 0
        /\ Len(StringMatch(call.url, settings.urlPatterns[call.index].pattern)) <= 10
        /\ NoDollar(StringMatch(call.url, settings.urlPatterns[call.index].pattern)))
       => call.result
            = MarkdownLink(SubstituteAtOnce(settings.urlPatterns[call.index].formatString,
                    StringMatch(call.url, settings.urlPatterns[call.index].pattern), 1),
                call.url)
    /\ DocumentedExamples

(***************************************************************************)
(* The paste handler                                                       *)
(***************************************************************************)
\* C2 as stated: while the global flag is false formatUrl returns null for
\* every URL, also one a pattern matches
C2_DisabledFormatUrlNull ==
    ~settings.enabled =>
        \A url \in {t \in PastedTexts : t # Undefined} : formatUrl(settings, url) = Null

\* C2 amended: a paste made while the global flag is false is never rewritten:
\* the handler returns not handled before it calls formatUrl
C2_DisabledPasteUntouched ==
    (lastPaste # NoPaste /\ ~lastPaste.enabled) =>
        /\ lastPaste.formattedText = Absent
        /\ ~lastPaste.defaultPrevented
        /\ lastPaste.dispatched = <<>>
        /\ ~lastPaste.handled

\* the documented URL was pasted on the default pattern with the flag off
C2_Witness ==
    /\ lastPaste # NoPaste
    /\ ~lastPaste.enabled
    /\ lastPaste.text = ExampleUrl
    /\ ~settings.enabled
    /\ settings.urlPatterns = DEFAULT_SETTINGS.urlPatterns
    /\ ~lastPaste.handled

\* C9: when the handler's call of formatUrl returned a link R with the main
\* selection at from..to, the default paste is suppressed, exactly one
\* transaction is dispatched, which replaces from..to with R and puts a collapsed
\* selection at from + length(R), and the event is reported handled
C9_RewriteOnMatch ==
    (lastPaste # NoPaste /\ lastPaste.formattedText \notin {Absent, Null}) =>
        /\ lastPaste.defaultPrevented
        /\ Len(lastPaste.dispatched) = 1
        /\ lastPaste.dispatched[1].changes
            = [from |-> lastPaste.from, to |-> lastPaste.to,
               insert |-> lastPaste.formattedText]
        /\ lastPaste.dispatched[1].selection.anchor
            = lastPaste.from + Len(lastPaste.formattedText)
        /\ lastPaste.dispatched[1].selection.head
            = lastPaste.dispatched[1].selection.anchor
        /\ lastPaste.handled

\* the documented URL was pasted at position 1 and became the documented link
C9_Witness ==
    /\ lastPaste # NoPaste
    /\ lastPaste.text = ExampleUrl
    /\ lastPaste.from = 1
    /\ lastPaste.handled
    /\ lastPaste.formattedText
        = <<"[", "A", "B", "C", "-", "1", "2", "3", " ", "(", "a", "c", "m", "e", ")", "]", "(">>
            \o ExampleUrl \o <<")">>
    /\ lastPaste.dispatched[1].selection.anchor = 1 + Len(lastPaste.formattedText)

\* the paste event r is one of the cases in which nothing is to be done
NothingToDo(r) ==
    \/ r.text \in {Undefined, <<>>}
    \/ ~isUrl(r.text)
    \/ ~r.enabled
    \/ r.formattedText = Null

\* the handler did nothing on the paste event r
NoAction(r) ==
    /\ ~r.defaultPrevented
    /\ r.dispatched = <<>>
    /\ ~r.handled
    /\ (r.text \in {Undefined, <<>>} \/ ~isUrl(r.text)) => r.formattedText = Absent

\* C10: a paste event whose clipboard text is absent, empty or not a URL, or
\* that comes with the global flag off, or whose URL no pattern matches, leaves
\* the settings as they are, suppresses nothing, dispatches nothing and is
\* reported not handled; for a text that is not a URL formatUrl is not called
C10_NoActionOtherwise ==
    [][lastPaste' # lastPaste =>
            /\ settings' = settings
            /\ NothingToDo(lastPaste') => NoAction(lastPaste')]_vars

\* a URL that no pattern matches was pasted with the flag on: formatUrl
\* returned null and the event was left to the editor
C10_Witness ==
    /\ lastPaste # NoPaste
    /\ lastPaste.enabled
    /\ isUrl(lastPaste.text)
    /\ lastPaste.formattedText = Null
    /\ ~lastPaste.handled
    /\ lastPaste.dispatched = <<>>

(***************************************************************************)
(* loadSettings (main.ts:89-110).  An item of the stored array is null, a  *)
(* value that is no object ("number"), or an object; the fields an object  *)
(* does not have are Absent.  captureGroupIndex is held as the text a      *)
(* template literal prints for it, or Null.                                *)
(***************************************************************************)
\* obj[f], undefined (Absent) when obj has no field f
Field(obj, f) == IF f \in DOMAIN obj THEN obj[f] ELSE Absent

\* the item is an object (the patterns the program makes carry no kind)
IsObject(item) == "kind" \notin DOMAIN item \/ item.kind = "object"

IsNullItem(item) == "kind" \in DOMAIN item /\ item.kind = "null"

\* value || fallback for a value that is a string, null or undefined
OrElse(value, fallback) ==
    IF value \in {Absent, Null, <<>>} THEN fallback ELSE value

\* the format string of the legacy fields with the postposition left out
NewFormatStringNoSuffix(oldPattern) ==
    OrElse(Field(oldPattern, "preposition"), <<>>)
        \o <<"$">> \o OrElse(Field(oldPattern, "captureGroupIndex"), <<"0">>)

\* main.ts:95-99: the format string made of the legacy fields
NewFormatString(oldPattern) ==
    OrElse(Field(oldPattern, "preposition"), <<>>)
        \o <<"$">> \o OrElse(Field(oldPattern, "captureGroupIndex"), <<"0">>)
        \o OrElse(Field(oldPattern, "postposition"), <<>>)

\* the callback of map (main.ts:92-108) on an item that is not null
MigratePattern(pattern) ==
    IF /\ IsObject(pattern)
       /\ Field(pattern, "formatString") = Absent
       /\ Field(pattern, "captureGroupIndex") # Absent
    THEN [kind |-> "object", name |-> Field(pattern, "name"),
          pattern |-> Field(pattern, "pattern"),
          formatString |-> NewFormatString(pattern),
          captureGroupIndex |-> Absent, preposition |-> Absent,
          postposition |-> Absent, enabled |-> Absent]
    ELSE pattern

\* the merge with the arguments in the other order: the defaults win
MergedDefaultsWin(data) ==
    [enabled |-> DEFAULT_SETTINGS.enabled,
     urlPatterns |-> [kind |-> "array", items |-> DEFAULT_SETTINGS.urlPatterns]]

\* Object.assign({}, DEFAULT_SETTINGS, data) (main.ts:90), urlPatterns as
\* [kind, items]
Merged(data) ==
    [enabled |-> IF data.exists /\ data.enabled # Absent
                 THEN data.enabled = JsTrue ELSE DEFAULT_SETTINGS.enabled,
     urlPatterns |-> IF data.exists /\ data.urlPatterns.kind # "absent"
                     THEN data.urlPatterns
                     ELSE [kind |-> "array", items |-> DEFAULT_SETTINGS.urlPatterns]]

\* urlPatterns.map(...) throws a TypeError: the value has no map, or an item
\* is null (null.hasOwnProperty)
MapThrows(urlPatterns) ==
    \/ urlPatterns.kind # "array"
    \/ \E k \in 1..Len(urlPatterns.items) : IsNullItem(urlPatterns.items[k])

\* loadSettings with loadData returning data: how it ends and this.settings then
loadSettings(data) ==
    IF MapThrows(Merged(data).urlPatterns)
    THEN [outcome |-> Thrown, settings |-> Merged(data)]
    ELSE [outcome |-> <<"completed">>,
          settings |->
            [enabled |-> Merged(data).enabled,
             urlPatterns |->
                [k \in 1..Len(Merged(data).urlPatterns.items) |->
                    MigratePattern(Merged(data).urlPatterns.items[k])]]]

\* the values drawn for the fields of a stored object
StoredItems ==
    {[kind |-> "object", name |-> <<>>, pattern |-> TwoAfterColon,
      formatString |-> f, captureGroupIndex |-> c, preposition |-> pre,
      postposition |-> post, enabled |-> Absent] :
        f \in {Absent, <<"$", "0">>}, c \in {Absent, Null, <<"2">>},
        pre \in {Absent, <<"x">>}, post \in {Absent, <<"y">>}}
    \cup {[kind |-> k, name |-> Absent, pattern |-> Absent, formatString |-> Absent,
           captureGroupIndex |-> Absent, preposition |-> Absent,
           postposition |-> Absent, enabled |-> Absent] : k \in {"null", "number"}}

RECURSIVE StoredArrays(_)
StoredArrays(n) ==
    IF n = 0 THEN {<<>>}
    ELSE LET shorter == StoredArrays(n - 1)
         IN shorter \cup {Append(a, i) : a \in shorter, i \in StoredItems}

\* what data.json can hold
StoredValues ==
    {NoData} \cup
    {[exists |-> TRUE, enabled |-> en, urlPatterns |-> ps] :
        en \in {Absent, JsTrue, JsFalse},
        ps \in {[kind |-> k, items |-> <<>>] : k \in {"absent", "null", "number"}}
                \cup {[kind |-> "array", items |-> a] : a \in StoredArrays(MaxPatterns)}}

\* the plugin object before onload: settings is the default object (main.ts:29)
InitLoad ==
    /\ settings = DEFAULT_SETTINGS
    /\ lastPaste = NoPaste
    /\ call = NoCall
    /\ subst = NoSubst
    /\ stored \in StoredValues
    /\ loaded = Absent
    /\ ids = <<>>
    /\ rendered = <<>>
    /\ awaiting = <<>>
    /\ lastSave = NoSave
    /\ clicks = 0

\* await this.loadSettings() in onload (main.ts:34)
Load ==
    /\ loaded = Absent
    /\ settings' = loadSettings(stored).settings
    /\ loaded' = loadSettings(stored).outcome
    /\ UNCHANGED <<lastPaste, call, subst, stored, ids, rendered, awaiting, lastSave,
                   clicks>>

NextLoad == Load

SpecLoad == InitLoad /\ [][NextLoad]_vars

\* the array loadSettings maps, and whether it completed
LoadedFrom == Merged(stored).urlPatterns.items

Completed == loaded = <<"completed">>

\* the text of a legacy field, empty when the field is missing
LegacyText(item, f) == IF item[f] \in {Absent, Null} THEN <<>> ELSE item[f]

\* preposition + "$" + captureGroupIndex + postposition, a missing index as 0
LegacyTemplate(item) ==
    LegacyText(item, "preposition") \o <<"$">>
        \o (IF item.captureGroupIndex \in {Absent, Null} THEN <<"0">>
            ELSE item.captureGroupIndex)
        \o LegacyText(item, "postposition")

\* the pattern at position k formats every URL as the pattern of item with
\* the template of the legacy fields does
FormatsAsTemplate(k, item) ==
    \A url \in Urls :
        formatUrlFrom(<<settings.urlPatterns[k]>>, url, 1).result
            = formatUrlFrom(<<[name |-> item.name, pattern |-> item.pattern,
                               formatString |-> LegacyTemplate(item)]>>, url, 1).result

\* the stored item has no format string but some legacy field
HasLegacyField(item) ==
    /\ IsObject(item)
    /\ Field(item, "formatString") = Absent
    /\ \E f \in {"captureGroupIndex", "preposition", "postposition"} :
            Field(item, f) # Absent

\* C11 as stated: a loaded pattern without format string that has any of the
\* legacy fields gets the template of its legacy fields and formats every URL
\* as a pattern with that template; the sequence keeps its length and order
C11_AnyLegacyFieldMigrated ==
    Completed =>
        /\ Len(settings.urlPatterns) = Len(LoadedFrom)
        /\ \A k \in 1..Len(LoadedFrom) :
            HasLegacyField(LoadedFrom[k]) =>
                /\ settings.urlPatterns[k].formatString = LegacyTemplate(LoadedFrom[k])
                /\ settings.urlPatterns[k].pattern = LoadedFrom[k].pattern
                /\ FormatsAsTemplate(k, LoadedFrom[k])

\* the stored item is one loadSettings migrates: an object without the field
\* formatString that has the field captureGroupIndex
HasCaptureGroupIndex(item) ==
    /\ IsObject(item)
    /\ Field(item, "formatString") = Absent
    /\ Field(item, "captureGroupIndex") # Absent

\* C11 amended: the migration is made for the patterns that have the field
\* captureGroupIndex (a null index counts as 0, a missing preposition or
\* postposition as empty); any other item, also one with only a preposition or
\* a postposition, is kept as it is; length and positions are kept
C11_MigratedWhenIndexed ==
    Completed =>
        /\ Len(settings.urlPatterns) = Len(LoadedFrom)
        /\ \A k \in 1..Len(LoadedFrom) :
            IF HasCaptureGroupIndex(LoadedFrom[k])
            THEN /\ settings.urlPatterns[k].formatString = LegacyTemplate(LoadedFrom[k])
                 /\ settings.urlPatterns[k].name = LoadedFrom[k].name
                 /\ settings.urlPatterns[k].pattern = LoadedFrom[k].pattern
                 /\ FormatsAsTemplate(k, LoadedFrom[k])
            ELSE settings.urlPatterns[k] = LoadedFrom[k]

\* a stored pattern with index 2, preposition x and postposition y was loaded
\* and renders a:21 as x1y
C11_Witness ==
    /\ Completed
    /\ Len(LoadedFrom) >= 1
    /\ HasCaptureGroupIndex(LoadedFrom[1])
    /\ LoadedFrom[1].preposition = <<"x">>
    /\ LoadedFrom[1].postposition = <<"y">>
    /\ settings.urlPatterns[1].formatString = <<"x", "$", "2", "y">>
    /\ formatUrlFrom(settings.urlPatterns, <<"a", ":", "2", "1">>, 1).result
        = <<"[", "x", "1", "y", "]", "(", "a", ":", "2", "1", ")">>

\* C12: loadSettings never throws: whatever data.json holds, it completes and
\* leaves settings whose flag is a boolean and whose patterns are a sequence as
\* long as the stored one
C12_LoadNeverThrows ==
    loaded # Absent =>
        /\ loaded # Thrown
        /\ settings.enabled \in BOOLEAN
        /\ Len(settings.urlPatterns) = Len(LoadedFrom)

\* the flag of data.json when it has one, the default flag otherwise
PersistedOrDefaultEnabled ==
    IF stored.exists /\ stored.enabled # Absent THEN stored.enabled = JsTrue
    ELSE DEFAULT_SETTINGS.enabled

\* the pattern array of data.json when it has one, the default one otherwise
PersistedOrDefaultPatterns ==
    IF stored.exists /\ stored.urlPatterns.kind # "absent"
    THEN stored.urlPatterns.items
    ELSE DEFAULT_SETTINGS.urlPatterns

\* C13 as stated: after load each top-level field is the persisted value when
\* data.json has the field and the default otherwise
C13_TopLevelFields ==
    Completed =>
        /\ settings.enabled = PersistedOrDefaultEnabled
        /\ settings.urlPatterns = PersistedOrDefaultPatterns

\* what the migration makes of a stored pattern that has captureGroupIndex
MigratedForm(item) ==
    [kind |-> "object", name |-> item.name, pattern |-> item.pattern,
     formatString |-> LegacyTemplate(item), captureGroupIndex |-> Absent,
     preposition |-> Absent, postposition |-> Absent, enabled |-> Absent]

\* C13 amended: after a load that completes the flag is the persisted one when
\* data.json has it and the default otherwise, and the patterns are the
\* persisted sequence when data.json has it and the default one otherwise, with
\* every pattern that has captureGroupIndex and no formatString in its migrated
\* form; with no data.json the settings are the defaults, one example pattern
\* and the flag on.  A load that throws (the stored list is no array or holds
\* null) has assigned the merged object before: the flag as above, the list as
\* stored
C13_TopLevelFieldsMigrated ==
    /\ loaded = Thrown =>
        /\ settings.enabled = PersistedOrDefaultEnabled
        /\ settings.urlPatterns = stored.urlPatterns
    /\ Completed =>
        /\ settings.enabled = PersistedOrDefaultEnabled
        /\ Len(settings.urlPatterns) = Len(PersistedOrDefaultPatterns)
        /\ \A k \in 1..Len(settings.urlPatterns) :
                settings.urlPatterns[k]
                    = IF HasCaptureGroupIndex(PersistedOrDefaultPatterns[k])
                      THEN MigratedForm(PersistedOrDefaultPatterns[k])
                      ELSE PersistedOrDefaultPatterns[k]
        /\ ~stored.exists =>
                /\ settings = DEFAULT_SETTINGS
                /\ settings.enabled
                /\ Len(settings.urlPatterns) = 1

\* data.json holds the flag false and no pattern list: the loaded flag is false
\* and the pattern is the default one
C13_Witness ==
    /\ Completed
    /\ stored.exists
    /\ stored.enabled = JsFalse
    /\ stored.urlPatterns.kind = "absent"
    /\ ~settings.enabled
    /\ settings.urlPatterns = DEFAULT_SETTINGS.urlPatterns

(***************************************************************************)
(* The settings tab (main.ts:164-251).  Every handler is async: it edits   *)
(* this.plugin.settings, calls saveSettings and awaits it; what follows    *)
(* the await runs when the save resolves and is skipped when it rejects.   *)
(* ids gives each pattern object of settings.urlPatterns an identity,      *)
(* rendered lists the objects the rows were made for by the last display():*)
(* row r holds the object rendered[r] and the index r.                     *)
(***************************************************************************)
\* the handlers started in one session
MaxClicks == 2

\* what saveData(this.settings) serialises (main.ts:114)
Persist(s) ==
    [exists |-> TRUE, enabled |-> IF s.enabled THEN JsTrue ELSE JsFalse,
     urlPatterns |-> [kind |-> "array", items |-> s.urlPatterns]]

\* a handler that has called saveSettings and awaits it: target is the object
\* its row was made for (0 for a control outside the rows), data is what
\* saveData was given, after is what the handler does once the save resolves
Handler(control, target, after, s) ==
    [control |-> control, target |-> target, after |-> after, data |-> Persist(s)]

Range(seq) == {seq[k] : k \in 1..Len(seq)}

\* the identity of the object literal of main.ts:248
FreshId ==
    CHOOSE n \in 1..(Len(ids) + Len(rendered) + 1) :
        /\ n \notin Range(ids) \cup Range(rendered)
        /\ \A m \in 1..(n - 1) : m \in Range(ids) \cup Range(rendered)

Ended(control, outcome) == [control |-> control, outcome |-> outcome]

\* the stored items of a session: an object with no formatString and a
\* legacy object
TabItems ==
    {[kind |-> "object", name |-> <<>>, pattern |-> LetterA,
      formatString |-> Absent, captureGroupIndex |-> c, preposition |-> Absent,
      postposition |-> Absent, enabled |-> Absent] : c \in {Absent, <<"1">>}}

RECURSIVE TabArrays(_)
TabArrays(n) ==
    IF n = 0 THEN {<<>>}
    ELSE LET shorter == TabArrays(n - 1)
         IN shorter \cup {Append(a, i) : a \in shorter, i \in TabItems}

TabStored ==
    {[exists |-> TRUE, enabled |-> Absent,
      urlPatterns |-> [kind |-> "array", items |-> a]] : a \in TabArrays(MaxPatterns)}

\* what is typed into a field of a row
TabValue(field) ==
    CASE field = "name" -> <<"n">>
      [] field = "pattern" -> Unterminated
      [] field = "formatString" -> <<"$", "1">>

TabFields == {"name", "pattern", "formatString"}

TabTexts == {<<"a">>, <<"a", ":", "2", "1">>}

\* onload has completed (main.ts:31-41) and the tab is shown (display())
InitTab ==
    /\ stored \in TabStored
    /\ loaded = loadSettings(stored).outcome
    /\ settings = loadSettings(stored).settings
    /\ ids = [k \in 1..Len(settings.urlPatterns) |-> k]
    /\ rendered = ids
    /\ awaiting = <<>>
    /\ lastSave = NoSave
    /\ clicks = 0
    /\ lastPaste = NoPaste
    /\ call = NoCall
    /\ subst = NoSubst

\* the toggle's onChange up to its await (main.ts:176-178)
ToggleChange ==
    /\ clicks < MaxClicks
    /\ clicks' = clicks + 1
    /\ settings' = [settings EXCEPT !.enabled = ~settings.enabled]
    /\ awaiting' = Append(awaiting, Handler("toggle", 0, "return", settings'))
    /\ UNCHANGED <<lastPaste, call, subst, stored, loaded, ids, rendered, lastSave>>

\* patternConfig.field = value on the object of a row: the object may have
\* left the array since the row was made
EditObject(urlPatterns, object, field, value) ==
    [k \in 1..Len(urlPatterns) |->
        IF ids[k] = object
        THEN [f \in DOMAIN urlPatterns[k] \cup {field} |->
                IF f = field THEN value ELSE urlPatterns[k][f]]
        ELSE urlPatterns[k]]

\* a text field's onChange up to its await (main.ts:199-201, 210-212, 223-225)
FieldChange(row, field) ==
    /\ clicks < MaxClicks
    /\ clicks' = clicks + 1
    /\ row \in 1..Len(rendered)
    /\ settings' = [settings EXCEPT
                        !.urlPatterns = EditObject(@, rendered[row], field,
                                                   TabValue(field))]
    /\ awaiting' = Append(awaiting, Handler("field", rendered[row], "return",
                                           settings'))
    /\ UNCHANGED <<lastPaste, call, subst, stored, loaded, ids, rendered, lastSave>>

\* Remove Pattern's onClick up to its await (main.ts:235-237): splice at the
\* index the row was made with
RemoveClick(row) ==
    /\ clicks < MaxClicks
    /\ clicks' = clicks + 1
    /\ row \in 1..Len(rendered)
    /\ settings' = [settings EXCEPT !.urlPatterns = Splice(@, row)]
    /\ ids' = Splice(ids, row)
    /\ awaiting' = Append(awaiting, Handler("remove", rendered[row], "display",
                                           settings'))
    /\ UNCHANGED <<lastPaste, call, subst, stored, loaded, rendered, lastSave>>

\* Add New Pattern's onClick up to its await (main.ts:247-249)
AddClick ==
    /\ clicks < MaxClicks
    /\ clicks' = clicks + 1
    /\ Len(settings.urlPatterns) < MaxPatterns
    /\ settings' = [settings EXCEPT
                        !.urlPatterns = Append(@, UrlPattern(<<>>, <<>>, <<>>))]
    /\ ids' = Append(ids, FreshId)
    /\ awaiting' = Append(awaiting, Handler("add", 0, "display", settings'))
    /\ UNCHANGED <<lastPaste, call, subst, stored, loaded, rendered, lastSave>>

\* the rows after the handler's await if display() were left out
AfterAwaitNoDisplay(handler) == rendered

\* the rows after the handler's await: this.display() for Remove and Add
\* (main.ts:238, 250), nothing for the others
AfterAwait(handler) ==
    IF handler.after = "display" THEN ids ELSE rendered

\* the save of the handler awaiting[i] resolves: the handler goes on
SaveResolves(i) ==
    /\ i \in 1..Len(awaiting)
    /\ stored' = awaiting[i].data
    /\ rendered' = AfterAwait(awaiting[i])
    /\ awaiting' = Splice(awaiting, i)
    /\ lastSave' = Ended(awaiting[i].control, "resolved")
    /\ UNCHANGED <<settings, lastPaste, call, subst, loaded, ids, clicks>>

\* the save of the handler awaiting[i] rejects: await throws, the handler
\* ends there
SaveRejects(i) ==
    /\ i \in 1..Len(awaiting)
    /\ awaiting' = Splice(awaiting, i)
    /\ lastSave' = Ended(awaiting[i].control, "rejected")
    /\ UNCHANGED <<settings, lastPaste, call, subst, stored, loaded, ids, rendered,
                   clicks>>

\* the tab is opened again: display() (main.ts:164)
Display ==
    /\ rendered # ids
    /\ rendered' = ids
    /\ UNCHANGED <<settings, lastPaste, call, subst, stored, loaded, ids, awaiting,
                   lastSave, clicks>>

\* the settings the handler would read if it took them from the last
\* completed write
PersistedSettings == loadSettings(stored).settings

\* plugin.settings as the paste handler and formatUrl read it (main.ts:49, 54,
\* 128): the object in memory
LiveSettings == settings

\* one paste event while the session goes on (main.ts:52-84)
PasteTab(pastedText) ==
    /\ lastPaste' = paste(LiveSettings, pastedText, 0, 0)
    /\ UNCHANGED <<settings, call, subst, session>>

NextTab ==
    \/ ToggleChange
    \/ \E row \in 1..MaxPatterns, field \in TabFields : FieldChange(row, field)
    \/ \E row \in 1..MaxPatterns : RemoveClick(row)
    \/ AddClick
    \/ \E i \in 1..MaxClicks : SaveResolves(i)
    \/ \E i \in 1..MaxClicks : SaveRejects(i)
    \/ Display
    \/ \E pastedText \in TabTexts : PasteTab(pastedText)

SpecTab == InitTab /\ [][NextTab]_vars

(***************************************************************************)
(* The handlers of the settings tab                                        *)
(***************************************************************************)
\* the step starts a handler
HandlerStarts == clicks' = clicks + 1

\* the step ends a handler
HandlerEnds == Len(awaiting') < Len(awaiting)

Started == awaiting'[Len(awaiting')]

C15_RowsInStepAfterHandlers ==
    awaiting = <<>> => rendered = ids

(***************************************************************************)
(* The substitution loop on a match with ten or eleven capture groups      *)
(***************************************************************************)
\* the text of a group: a letter, or undefined for a group that took no part
LongGroupTexts == {<<"a">>, <<"b">>, Undefined}

\* match arrays with ten or eleven groups: the groups 1, 10 and 11 vary
LongMatches ==
    {[k \in 1..11 |-> IF k = 1 THEN <<"u">> ELSE IF k = 2 THEN g1
                      ELSE IF k = 11 THEN g10 ELSE <<"c">>] :
        g1 \in LongGroupTexts, g10 \in LongGroupTexts}
    \cup {[k \in 1..12 |-> IF k = 1 THEN <<"u">> ELSE IF k = 2 THEN g1
                           ELSE IF k = 11 THEN g10
                           ELSE IF k = 12 THEN g11 ELSE <<"c">>] :
            g1 \in LongGroupTexts, g10 \in LongGroupTexts, g11 \in LongGroupTexts}

LongFormatStrings ==
    {<<"$", "1", "0">>, <<"$", "1", "1">>, <<"$", "1", "0", "$", "1">>}

InitLong ==
    /\ settings = DEFAULT_SETTINGS
    /\ lastPaste = NoPaste
    /\ NoSession
    /\ call = NoCall
    /\ subst \in {[formatString |-> f, match |-> m, out |-> Absent] :
                    f \in LongFormatStrings, m \in LongMatches}

SpecLong == InitLong /\ [][NextRender]_vars

\* C16: for a match with ten or more groups, a template that is the
\* placeholder of a two-digit index present in the match renders the text of
\* that group: substituting $1 does not consume its first two characters
C16_TwoDigitPlaceholder ==
    subst.out # Absent =>
        \A i \in 10..(Len(subst.match) - 1) :
            subst.formatString = <<"$">> \o DecimalString(i) =>
                subst.out = GroupText(subst.match, i)

(***************************************************************************)
(* Paste events during a session of the settings tab                       *)
(***************************************************************************)
\* link is "[" label "](" text ")" for some label
IsLinkTo(text, link) ==
    /\ Len(link) >= Len(text) + 4
    /\ link[1] = "["
    /\ SubSeq(link, Len(link) - Len(text) - 2, Len(link))
            = <<"]", "(">> \o text \o <<")">>

\* the event was left to the default paste: nothing prevented, nothing
\* dispatched
DefaultPaste(event) ==
    /\ ~event.handled
    /\ ~event.defaultPrevented
    /\ event.dispatched = <<>>
    /\ event.formattedText \in {Absent, Null}

\* the event was rewritten to one Markdown link to the pasted text
RewrittenToLink(event) ==
    /\ event.handled
    /\ event.defaultPrevented
    /\ Len(event.dispatched) = 1
    /\ event.dispatched[1].changes.insert = event.formattedText
    /\ event.formattedText # Thrown
    /\ IsLinkTo(event.text, event.formattedText)

\* C17: in every state a completed load and the handlers of the settings tab
\* lead to, a paste event does not throw: it ends as a rewrite to a Markdown
\* link or as the default paste
C17_PasteNeverThrows ==
    lastPaste # NoPaste => DefaultPaste(lastPaste) \/ RewrittenToLink(lastPaste)

\* a URL was pasted after a handler of the tab made an expression invalid,
\* while a pattern without formatString matched it: the default paste
C17_Witness ==
    /\ lastPaste # NoPaste
    /\ lastPaste.text = <<"a", ":", "2", "1">>
    /\ lastPaste.enabled
    /\ lastPaste.formattedText = Null
    /\ DefaultPaste(lastPaste)
    /\ clicks > 0
    /\ Len(settings.urlPatterns) = 2
    /\ settings.urlPatterns[1].formatString = Absent
    /\ settings.urlPatterns[1].pattern = LetterA
    /\ settings.urlPatterns[2].pattern = Unterminated

(***************************************************************************)
(* Rows that are older than the sequence                                   *)
(***************************************************************************)
\* the pattern object with identity id in the sequence, as [pattern] or <<>>
ObjectOf(identities, urlPatterns, id) ==
    {urlPatterns[k] : k \in {n \in 1..Len(identities) : identities[n] = id}}

\* the objects other than target are the same before and after the step, with
\* the same fields
OthersUntouched(target) ==
    \A id \in (Range(ids) \cup Range(ids')) \ {target} :
        ObjectOf(ids', settings'.urlPatterns, id) = ObjectOf(ids, settings.urlPatterns, id)

\* C18: the Remove control of a row removes the pattern the row was rendered
\* for and no other, keeping the others in their order, and a field of a row
\* edits no other pattern, also when the rows are older than the sequence
\* because an earlier Remove or Add still awaits its save
C18_RemoveExactlyRendered ==
    [][HandlerStarts /\ Started.control \in {"remove", "field"} =>
            /\ ids' = SelectSeq(ids, LAMBDA id : id # Started.target)
                        \/ Started.control = "field"
            /\ ids' = ids \/ Started.control = "remove"
            /\ OthersUntouched(Started.target)]_vars

\* C19: a paste event is handled with the settings in memory at that moment,
\* whether or not the writes of the handlers before it have completed: with
\* the flag false it is left to the default paste, a rewrite is the link of a
\* pattern that is in the sequence now, and a URL that a pattern of the
\* sequence renders is rewritten when the flag is true
C19_NextPasteReadsLiveSettings ==
    [][lastPaste' # lastPaste =>
            /\ ~settings.enabled => DefaultPaste(lastPaste')
            /\ lastPaste'.handled =>
                    \E k \in 1..Len(settings.urlPatterns) :
                        lastPaste'.formattedText
                            = TryPattern(settings.urlPatterns[k], lastPaste'.text)
            /\ settings.enabled /\ isUrl(lastPaste'.text)
                    /\ formatUrl(settings, lastPaste'.text) # Null
                    => RewrittenToLink(lastPaste')]_vars

\* the flag was set to false, the write is still awaited and the file holds no
\* flag; a URL that a pattern renders was pasted and left alone
C19_Witness ==
    /\ lastPaste # NoPaste
    /\ lastPaste.text = <<"a", ":", "2", "1">>
    /\ ~lastPaste.enabled
    /\ DefaultPaste(lastPaste)
    /\ ~settings.enabled
    /\ formatUrl(settings, lastPaste.text) # Null
    /\ Len(awaiting) = 1
    /\ awaiting[1].control = "toggle"
    /\ stored.enabled = Absent

====
